---- MODULE Spec2Model ----
(***************************************************************************)
(* Model of the Kanban board store (zustand store useKanbanStore): the     *)
(* board aggregate, the four task mutations, the filter setters, the       *)
(* filter projection and the persist middleware's localStorage slot.       *)
(***************************************************************************)
EXTENDS Integers, Sequences, FiniteSets, TLC

VARIABLES
  board,            \* KanbanState.board (useKanbanStore.ts:98)
  filterByStatus,   \* KanbanState.filterByStatus, None when undefined
  filterByPriority, \* KanbanState.filterByPriority, None when undefined
  now,              \* the wall clock new Date() reads
  nextId,           \* the next fresh id uuidv4() hands out
  storage,          \* the localStorage slot "kanban-storage": None when absent
  wrote,            \* TRUE when the most recent call on the store wrote the slot
  view,             \* what the most recent call returned, when it was getFilteredBoard()
  pending,          \* the locals of a moveTask updater that has not returned yet, else None
  dialog            \* the create/edit dialog: open flag, taskToEdit, form fields, errors

vars ==
  <<board, filterByStatus, filterByPriority, now, nextId, storage, wrote, view, pending,
    dialog>>

(* ---------------- bounds ---------------- *)
MaxTasks == 2
MaxClock == 1

(* ---------------- optional values ---------------- *)
\* an optional field: <<>> is undefined, <<v>> is the value v
None == <<>>
Some(v) == <<v>>
Default(arg, d) == IF arg = None THEN d ELSE arg[1]

(* ---------------- types/index.ts ---------------- *)
TaskPriority == {"low", "medium", "high"}
TaskStatus == {"backlog", "todo", "in_progress", "done"}

(* ---------------- dates ---------------- *)
\* a Date object whose getTime() is t
DateAt(t) == [time |-> t]
\* Date.prototype.toISOString: the timestamp string of a Date
ToISOString(d) == [iso |-> d.time]
\* what JSON.stringify writes for a date field: Date.prototype.toJSON for a Date
\* object, the string itself for a string
ToJSON(v) == IF "time" \in DOMAIN v THEN ToISOString(v) ELSE v
\* new Date(value).getTime(), for a Date object or a timestamp string
GetTime(v) == IF "time" \in DOMAIN v THEN v.time ELSE v.iso

(* ---------------- strings ---------------- *)
\* a string is the sequence of its characters; a task code TASK-nnn, which holds no
\* whitespace, counts as one character, so that the string of a code c is <<c>>
Whitespace == {" ", "\t"}

\* `${code} ${title}`
Template(code, title) == code \o <<" ">> \o title

\* String.prototype.split(" "): the pieces between the spaces, "" included
RECURSIVE Split(_)
Split(s) ==
  LET spaces == {k \in 1..Len(s) : s[k] = " "}
  IN IF spaces = {} THEN <<s>>
     ELSE LET i == CHOOSE k \in spaces : \A j \in spaces : k <= j
          IN <<SubSeq(s, 1, i - 1)>> \o Split(SubSeq(s, i + 1, Len(s)))

\* Array.prototype.join(" ")
RECURSIVE Join(_)
Join(parts) ==
  IF Len(parts) = 0 THEN <<>>
  ELSE IF Len(parts) = 1 THEN parts[1]
  ELSE parts[1] \o <<" ">> \o Join(Tail(parts))

\* String.prototype.trim(): leading and trailing whitespace removed
Trim(s) ==
  LET inked == {k \in 1..Len(s) : s[k] \notin Whitespace}
  IN IF inked = {} THEN <<>>
     ELSE SubSeq(s, CHOOSE k \in inked : \A j \in inked : k <= j,
                    CHOOSE k \in inked : \A j \in inked : k >= j)

(* ---------------- inputs ---------------- *)
Ids == 1..MaxTasks
Times == 0..MaxClock
Codes == {"TASK-100"}
TitleInputs == {<<"a">>}
DescriptionInputs == {None}
DueDateInputs == {None}
StatusArgs == {None} \cup {Some(s) : s \in TaskStatus}
PriorityArgs == {None, Some("high")}

(* ---------------- initialBoard ---------------- *)
initialBoard ==
  [id |-> "board", title |-> "Kanban Board",
   columns |-> << [id |-> "c1", title |-> "To Do", status |-> "todo", tasks |-> <<>>],
                  [id |-> "c2", title |-> "In Progress", status |-> "in_progress", tasks |-> <<>>],
                  [id |-> "c3", title |-> "Done", status |-> "done", tasks |-> <<>>] >>]

(* ---------------- helpers (array primitives used by the store) ---------------- *)
Min(S) == CHOOSE x \in S : \A y \in S : x <= y
Max(S) == CHOOSE x \in S : \A y \in S : x >= y

\* Array.prototype.findIndex on a task list by id; 0 stands for -1
FindTaskIndex(tasks, taskId) ==
  LET hits == {k \in 1..Len(tasks) : tasks[k].id = taskId}
  IN IF hits = {} THEN 0 ELSE Min(hits)

\* columns.findIndex((col) => col.status === status); 0 stands for -1
FindColumnIndex(columns, status) ==
  LET hits == {i \in 1..Len(columns) : columns[i].status = status}
  IN IF hits = {} THEN 0 ELSE Min(hits)

\* fault injection: splice(findIndex(...), 1), which drops the last task when the id is absent
RemoveTaskSplice(tasks, taskId) ==
  LET k == FindTaskIndex(tasks, taskId)
      cut == IF k = 0 THEN Len(tasks) ELSE k
  IN [j \in 1..(IF tasks = <<>> THEN 0 ELSE Len(tasks) - 1) |->
        IF j < cut THEN tasks[j] ELSE tasks[j + 1]]

\* tasks.filter((task) => task.id !== taskId)
RemoveTask(tasks, taskId) == SelectSeq(tasks, LAMBDA t : t.id # taskId)

\* the forEach scan of updateTask/moveTask: the LAST column holding the id wins
SourceColumnIndex(b, taskId) ==
  LET hits == {i \in 1..Len(b.columns) : FindTaskIndex(b.columns[i].tasks, taskId) # 0}
  IN IF hits = {} THEN 0 ELSE Max(hits)

\* the task the scan keeps: column.tasks.find in the last column holding the id
FoundTask(b, taskId) ==
  LET c == SourceColumnIndex(b, taskId)
  IN b.columns[c].tasks[FindTaskIndex(b.columns[c].tasks, taskId)]

\* object spread { ...task, ...updatedTask }
Merge(task, p) == [f \in DOMAIN task |-> IF f \in DOMAIN p THEN p[f] ELSE task[f]]

\* { ...state.board, columns: updatedColumns }
WithColumns(b, cols) == [b EXCEPT !.columns = cols]

\* zustand set(): the object an updater returns is merged over the state
Set(state, partial) == Merge(state, partial)

(* ---------------- createTask ---------------- *)
generateTaskCode == Codes

\* fault injection: the new task is stamped as already updated
NewTaskTouched(newId, code, title, description, status, priority, dueDate, t) ==
  [id |-> newId, title |-> Template(<<code>>, title), description |-> description,
   status |-> status, priority |-> priority, createdAt |-> t,
   updatedAt |-> Some(t), dueDate |-> dueDate]

NewTask(newId, code, title, description, status, priority, dueDate, t) ==
  [id |-> newId, title |-> Template(<<code>>, title), description |-> description,
   status |-> status, priority |-> priority, createdAt |-> t,
   updatedAt |-> None, dueDate |-> dueDate]

\* fault injection: a status without a column falls back to the first column
ColumnTakesOrFirst(columns, i, status) ==
  \/ columns[i].status = status
  \/ (i = 1 /\ \A j \in 1..Len(columns) : columns[j].status # status)

\* the column test of createTask's map: column.status === status
ColumnTakes(columns, i, status) == columns[i].status = status

CreateTaskBoard(b, newId, code, title, description, statusArg, priorityArg, dueDate, t) ==
  LET status == Default(statusArg, "todo")
      priority == Default(priorityArg, "medium")
      newTask == NewTask(newId, code, title, description, status, priority, dueDate, t)
  IN WithColumns(b,
       [i \in 1..Len(b.columns) |->
          IF ColumnTakes(b.columns, i, status)
          THEN [b.columns[i] EXCEPT !.tasks = Append(@, newTask)]
          ELSE b.columns[i]])

createTaskFn(state, newId, code, title, description, statusArg, priorityArg, dueDate, t) ==
  [board |-> CreateTaskBoard(state.board, newId, code, title, description,
                             statusArg, priorityArg, dueDate, t)]

(* ---------------- updateTask ---------------- *)
StatusChanges(p, currentTask) ==
  "status" \in DOMAIN p /\ p.status # currentTask.status

\* fault injection: the spread comes last, an updatedAt of the caller wins
UpdatedTaskCallerStamp(task, p, t) == Merge([task EXCEPT !.updatedAt = Some(t)], p)

\* { ...task, ...updatedTask, updatedAt: new Date() }
UpdatedTask(task, p, t) == [Merge(task, p) EXCEPT !.updatedAt = Some(t)]

\* the status-change branch: remove from the source column, append to the destination
UpdateMoveColumns(columns, src, currentTask, taskId, p, t) ==
  LET removed == [columns EXCEPT ![src].tasks = RemoveTask(@, taskId)]
      dst == FindColumnIndex(removed, p.status)
  IN IF dst # 0
     THEN [removed EXCEPT ![dst].tasks = Append(@, UpdatedTask(currentTask, p, t))]
     ELSE removed

\* the else branch: every column that holds the id gets its first match replaced
UpdateInPlaceColumns(columns, taskId, p, t) ==
  [i \in 1..Len(columns) |->
     LET k == FindTaskIndex(columns[i].tasks, taskId) IN
     IF k # 0
     THEN [columns[i] EXCEPT !.tasks[k] = UpdatedTask(@, p, t)]
     ELSE columns[i]]

UpdateTaskBoard(b, taskId, p, t) ==
  LET src == SourceColumnIndex(b, taskId) IN
  IF src = 0 THEN b
  ELSE
    LET currentTask == FoundTask(b, taskId) IN
    IF StatusChanges(p, currentTask)
    THEN WithColumns(b, UpdateMoveColumns(b.columns, src, currentTask, taskId, p, t))
    ELSE WithColumns(b, UpdateInPlaceColumns(b.columns, taskId, p, t))

\* the updater passed to set(): `return state` when the task is not found
updateTaskFn(state, taskId, p, t) ==
  IF SourceColumnIndex(state.board, taskId) = 0
  THEN state
  ELSE [board |-> UpdateTaskBoard(state.board, taskId, p, t)]

(* ---------------- deleteTask ---------------- *)
\* fault injection: only the first column is filtered
DeleteTaskBoardFirstColumn(b, taskId) ==
  WithColumns(b, [b.columns EXCEPT ![1].tasks = RemoveTask(@, taskId)])

DeleteTaskBoard(b, taskId) ==
  WithColumns(b,
    [i \in 1..Len(b.columns) |->
       [b.columns[i] EXCEPT !.tasks = RemoveTask(@, taskId)]])

deleteTaskFn(state, taskId) == [board |-> DeleteTaskBoard(state.board, taskId)]

(* ---------------- moveTask ---------------- *)
\* fault injection: the moved task keeps its old updatedAt
MovedTaskStale(taskToMove, destinationStatus, t) ==
  [taskToMove EXCEPT !.status = destinationStatus]

\* { ...taskToMove, status: destinationStatus, updatedAt: new Date() }
MovedTask(taskToMove, destinationStatus, t) ==
  [taskToMove EXCEPT !.status = destinationStatus, !.updatedAt = Some(t)]

\* fault injection: a destination status without a column gets a column of its own
MoveTaskBoardCreatesColumn(b, taskId, destinationStatus, t) ==
  LET src == SourceColumnIndex(b, taskId) IN
  IF src = 0 THEN b
  ELSE
    LET taskToMove == FoundTask(b, taskId)
        removed == [b.columns EXCEPT ![src].tasks = RemoveTask(@, taskId)]
        dst == FindColumnIndex(removed, destinationStatus)
        moved == MovedTask(taskToMove, destinationStatus, t)
    IN WithColumns(b,
         IF dst # 0
         THEN [removed EXCEPT ![dst].tasks = Append(@, moved)]
         ELSE Append(removed, [id |-> "c4", title |-> destinationStatus,
                               status |-> destinationStatus, tasks |-> <<moved>>]))

MoveTaskBoard(b, taskId, destinationStatus, t) ==
  LET src == SourceColumnIndex(b, taskId) IN
  IF src = 0 THEN b
  ELSE
    LET taskToMove == FoundTask(b, taskId)
        removed == [b.columns EXCEPT ![src].tasks = RemoveTask(@, taskId)]
        dst == FindColumnIndex(removed, destinationStatus)
    IN WithColumns(b,
         IF dst # 0
         THEN [removed EXCEPT ![dst].tasks =
                 Append(@, MovedTask(taskToMove, destinationStatus, t))]
         ELSE removed)

\* fault injection: no early return, an unknown id is still appended to the destination column
moveTaskFnUpsert(state, taskId, destinationStatus, t) ==
  LET b == state.board
      dst == FindColumnIndex(b.columns, destinationStatus)
      ghost == [id |-> taskId, status |-> destinationStatus, updatedAt |-> Some(t)]
  IN IF SourceColumnIndex(b, taskId) # 0
     THEN [board |-> MoveTaskBoard(b, taskId, destinationStatus, t)]
     ELSE [board |-> WithColumns(b,
             IF dst # 0 THEN [b.columns EXCEPT ![dst].tasks = Append(@, ghost)]
             ELSE b.columns)]

\* the updater passed to set(): `return state` when the task is not found
moveTaskFn(state, taskId, destinationStatus, t) ==
  IF SourceColumnIndex(state.board, taskId) = 0
  THEN state
  ELSE [board |-> MoveTaskBoard(state.board, taskId, destinationStatus, t)]

(* ---------------- getFilteredBoard ---------------- *)
\* fault injection: the two filters are OR-ed
MatchesEitherFilter(task, fs, fp) ==
  LET matchesStatus == fs = None \/ task.status = fs[1]
      matchesPriority == fp = None \/ task.priority = fp[1]
  IN matchesStatus \/ matchesPriority

MatchesFilters(task, fs, fp) ==
  LET matchesStatus == fs = None \/ task.status = fs[1]
      matchesPriority == fp = None \/ task.priority = fp[1]
  IN matchesStatus /\ matchesPriority

\* fault injection: with a status filter set, only the columns of that status are returned
FilteredBoardHidesColumns(b, fs, fp) ==
  WithColumns(b,
    SelectSeq([i \in 1..Len(b.columns) |->
                 [b.columns[i] EXCEPT
                    !.tasks = SelectSeq(@, LAMBDA task : MatchesFilters(task, fs, fp))]],
              LAMBDA column : fs = None \/ column.status = fs[1]))

FilteredBoard(b, fs, fp) ==
  WithColumns(b,
    [i \in 1..Len(b.columns) |->
       [b.columns[i] EXCEPT
          !.tasks = SelectSeq(@, LAMBDA task : MatchesFilters(task, fs, fp))]])

getFilteredBoard == FilteredBoard(board, filterByStatus, filterByPriority)

\* fault injection: the call keeps the filtered board as the store's board
getFilteredBoardFnInPlace(state) ==
  LET shown == FilteredBoard(state.board, state.filterByStatus, state.filterByPriority)
  IN [returned |-> shown, state |-> [state EXCEPT !.board = shown]]

\* one call of getFilteredBoard(): what it returns and the state it leaves (it reads
\* the state through get() and never calls set())
getFilteredBoardFn(state) ==
  [returned |-> FilteredBoard(state.board, state.filterByStatus, state.filterByPriority),
   state |-> state]

\* fault injection: choosing a status filter drops the priority filter
setFilterStatusFnResets(status) == [filterByStatus |-> status, filterByPriority |-> None]

setFilterStatusFn(status) == [filterByStatus |-> status]
setFilterPriorityFn(priority) == [filterByPriority |-> priority]
\* fault injection: only the status filter is cleared
clearFiltersFnStatusOnly == [filterByStatus |-> None]

clearFiltersFn == [filterByStatus |-> None, filterByPriority |-> None]

(* ---------------- the objects each updater builds ---------------- *)
\* Which objects of the state an updater returns are new objects: the board object,
\* the columns array, and the columns whose object and task list are new (tasks);
\* inPlace lists the columns whose old task list the updater assigns into.
NothingNew == [board |-> FALSE, columns |-> FALSE, tasks |-> {}, inPlace |-> {}]

\* createTask: { ...state.board, columns: columns.map(...) }, a new column object
\* with a new task list where column.status === status, the column itself elsewhere
createTaskNew(b, statusArg) ==
  [board |-> TRUE, columns |-> TRUE,
   tasks |-> {i \in 1..Len(b.columns) : ColumnTakes(b.columns, i, Default(statusArg, "todo"))},
   inPlace |-> {}]

\* fault injection: the in-place branch assigns into column.tasks instead of a copy
updateTaskNewInPlace(b, taskId, p) ==
  IF SourceColumnIndex(b, taskId) = 0 THEN NothingNew
  ELSE IF StatusChanges(p, FoundTask(b, taskId))
  THEN [board |-> TRUE, columns |-> TRUE,
        tasks |-> {SourceColumnIndex(b, taskId)}
                    \cup ({FindColumnIndex(b.columns, p.status)} \ {0}),
        inPlace |-> {}]
  ELSE [board |-> TRUE, columns |-> TRUE, tasks |-> {},
        inPlace |-> {i \in 1..Len(b.columns) : FindTaskIndex(b.columns[i].tasks, taskId) # 0}]

\* updateTask: `return state` when not found; on a status change a copy of the
\* columns array with a new source column and a new destination column; otherwise
\* columns.map(...) with a new column and a copied task list where the id is found
updateTaskNew(b, taskId, p) ==
  IF SourceColumnIndex(b, taskId) = 0 THEN NothingNew
  ELSE IF StatusChanges(p, FoundTask(b, taskId))
  THEN [board |-> TRUE, columns |-> TRUE,
        tasks |-> {SourceColumnIndex(b, taskId)}
                    \cup ({FindColumnIndex(b.columns, p.status)} \ {0}),
        inPlace |-> {}]
  ELSE [board |-> TRUE, columns |-> TRUE,
        tasks |-> {i \in 1..Len(b.columns) : FindTaskIndex(b.columns[i].tasks, taskId) # 0},
        inPlace |-> {}]

\* deleteTask: columns.map(...) with a new column and a filtered list for every column
deleteTaskNew(b, taskId) ==
  [board |-> TRUE, columns |-> TRUE, tasks |-> 1..Len(b.columns), inPlace |-> {}]

\* moveTask: `return state` when not found; otherwise a copy of the columns array
\* with a new source column and, when there is one, a new destination column
moveTaskNew(b, taskId, destinationStatus) ==
  IF SourceColumnIndex(b, taskId) = 0 THEN NothingNew
  ELSE [board |-> TRUE, columns |-> TRUE,
        tasks |-> {SourceColumnIndex(b, taskId)}
                    \cup ({FindColumnIndex(b.columns, destinationStatus)} \ {0}),
        inPlace |-> {}]

(* ---------------- Column: the displayed order ---------------- *)
\* a.updatedAt || a.createdAt
DateOf(task) == IF task.updatedAt # None THEN task.updatedAt[1] ELSE task.createdAt

\* fault injection: oldest first
CompareAscending(a, b) == GetTime(DateOf(a)) - GetTime(DateOf(b))

\* the comparator: new Date(dateB).getTime() - new Date(dateA).getTime()
Compare(a, b) == GetTime(DateOf(b)) - GetTime(DateOf(a))

\* one task put into an already sorted list: before the first task the comparator
\* places after it, so that tasks that compare equal keep their order (stable sort)
InsertSorted(sorted, task) ==
  LET later == {k \in 1..Len(sorted) : Compare(task, sorted[k]) < 0}
      at == IF later = {} THEN Len(sorted) + 1 ELSE Min(later)
  IN SubSeq(sorted, 1, at - 1) \o <<task>> \o SubSeq(sorted, at, Len(sorted))

RECURSIVE SortFirst(_, _)
\* Array.prototype.sort with the comparator, on the first n tasks
SortFirst(tasks, n) ==
  IF n = 0 THEN <<>> ELSE InsertSorted(SortFirst(tasks, n - 1), tasks[n])

\* fault injection: column.tasks.sort(...), which sorts the stored list itself
RenderColumnInPlace(column) ==
  [sortedTasks |-> SortFirst(column.tasks, Len(column.tasks)),
   column |-> [column EXCEPT !.tasks = SortFirst(column.tasks, Len(column.tasks))]]

\* one render of Column: sortedTasks = [...tasks].sort(...), and the column it leaves
RenderColumn(column) ==
  [sortedTasks |-> SortFirst(column.tasks, Len(column.tasks)), column |-> column]

(* ---------------- inputs of updateTask ---------------- *)
\* Partial<Task>: a subset of the fields of Task, each with a value of its type
StatusPartials == {[status |-> s] : s \in TaskStatus}
PriorityPartials == {[priority |-> "high"]}
IdPartials == {[id |-> i] : i \in 1..(nextId - 1)}
DatePartials ==
  {[createdAt |-> DateAt(t)] : t \in Times} \cup {[updatedAt |-> Some(DateAt(t))] : t \in Times}
\* what CreateTaskDialog.handleSubmit passes in edit mode
DialogPartials ==
  {[title |-> Template(<<c>>, <<"a">>), description |-> None, status |-> "done",
    priority |-> "medium", dueDate |-> None] : c \in Codes}

Partials == StatusPartials \cup PriorityPartials \cup IdPartials
              \cup DatePartials \cup DialogPartials
FilterPartials ==
  StatusPartials \cup PriorityPartials \cup IdPartials \cup {[priority |-> "low"]}

\* ids createTask has handed out so far
Allocated == 1..(nextId - 1)

(* ---------------- persist middleware ---------------- *)
\* the slot is modelled by the JSON value its text denotes; a key whose value is
\* undefined is left out by JSON.stringify and reads as undefined after JSON.parse,
\* which None stands for on both sides
NotAnArray == <<"corrupt">>
\* Array.isArray(value), for a column list or the one non-array value of the model
IsArray(v) == v # NotAnArray

\* fault injection: the whole state is persisted
PartializeAll(state) == state

\* partialize: (state) => ({ board: state.board })
Partialize(state) == [board |-> state.board]

\* JSON.stringify of a task: the Date fields become timestamp strings
StringifyTask(task) ==
  [task EXCEPT !.createdAt = ToJSON(@),
               !.updatedAt = IF @ = None THEN None ELSE Some(ToJSON(@[1])),
               !.dueDate = IF @ = None THEN None ELSE Some(ToJSON(@[1]))]

StringifyBoard(b) ==
  IF IsArray(b.columns)
  THEN WithColumns(b,
         [i \in 1..Len(b.columns) |->
            [b.columns[i] EXCEPT
               !.tasks = [k \in 1..Len(b.columns[i].tasks) |->
                            StringifyTask(b.columns[i].tasks[k])]]])
  ELSE b

\* JSON.stringify of the partialized state
Stringify(partial) ==
  [f \in DOMAIN partial |->
     IF f = "board" THEN StringifyBoard(partial[f]) ELSE partial[f]]

\* the slot after storage.setItem(name, partialize(state))
SetItem(state) == Some(Stringify(Partialize(state)))

\* fault injection: the slot is written before the update is applied
SlotBeforeSet(before, after) == SetItem(before)

\* persist wraps set(): the update is applied, then the new state is written
SlotAfterSet(before, after) == SetItem(after)

\* the state the store is created with
InitialState ==
  [board |-> initialBoard, filterByStatus |-> None, filterByPriority |-> None]

\* the callback of onRehydrateStorage: what it returns for the hydrated state
onRehydrateStorage(state) ==
  IF ~IsArray(state.board.columns) THEN Some([board |-> initialBoard]) ELSE None

\* persist calls the callback after hydration and does not use what it returns
PostRehydration(state, returned) == state

\* fault injection: the slot is never read, every page load starts from the initial state
RehydrateSkipped(slot) == InitialState

\* hydration: the persisted state, when the slot holds one, is merged over the
\* initial state ({ ...currentState, ...persistedState }); JSON.parse revives no Date
Rehydrate(slot) ==
  LET persisted == IF slot = None THEN None ELSE slot[1]
      merged == Merge(InitialState, persisted)
  IN PostRehydration(merged, onRehydrateStorage(merged))

\* a stored board whose columns are not an array
CorruptBoard == [initialBoard EXCEPT !.columns = NotAnArray]
\* what the slot can hold when the page loads for the first time in a run:
\* nothing, a state without a board field, a board without a column list
InitialSlots == {None, Some(<<>>), Some([board |-> CorruptBoard])}

(* ---------------- exceptions ---------------- *)
\* state.board.columns.map / .forEach is not a function when columns is not an array:
\* the updater throws a TypeError, set() changes nothing and the error reaches the caller
createTaskThrows(state) == ~IsArray(state.board.columns)
updateTaskThrows(state) == ~IsArray(state.board.columns)
deleteTaskThrows(state) == ~IsArray(state.board.columns)
moveTaskThrows(state) == ~IsArray(state.board.columns)
\* board.columns.map in getFilteredBoard
getFilteredBoardThrows(state) == ~IsArray(state.board.columns)
\* the filter setters only build { filterByStatus: ... } and never read the board
setFilterThrows(state) == FALSE

(* ---------------- the create/edit dialog ---------------- *)
\* the dialog before it is opened for the first time: the useState defaults
ClosedDialog ==
  [open |-> FALSE, taskToEdit |-> None, title |-> <<>>, description |-> <<>>,
   status |-> "todo", priority |-> "medium", dueDate |-> <<>>, errors |-> None]

\* what the user can type into the title field
DialogTitles == {<<>>, <<" ", "\t">>, <<"a">>, <<"a", " ", " ", "b">>}
\* the items of the status select
DialogStatuses == {"todo", "in_progress", "done"}

\* the value of the date input for a stored dueDate, to the day:
\* new Date(taskToEdit.dueDate).toISOString().split("T")[0], "" when there is none
DateInputValue(dueDate) ==
  IF dueDate = None THEN <<>> ELSE <<[day |-> GetTime(dueDate[1])]>>

\* dueDate ? new Date(dueDate) : undefined
DateInputDate(field) == IF field = <<>> THEN None ELSE Some(DateAt(field[1].day))

\* description || undefined
DescriptionValue(field) == IF field = <<>> THEN None ELSE Some(field)

\* the effect that fills the form when the dialog opens in create mode
CreateForm(initialColumnStatus) ==
  [open |-> TRUE, taskToEdit |-> None, title |-> <<>>, description |-> <<>>,
   status |-> initialColumnStatus, priority |-> "medium", dueDate |-> <<>>,
   errors |-> None]

\* fault injection: the title field is filled with the second piece of the title only
EditFormSecondPiece(task) ==
  [open |-> TRUE, taskToEdit |-> Some(task),
   title |-> IF Len(Split(task.title)) > 1 THEN Split(task.title)[2] ELSE <<>>,
   description |-> IF task.description = None THEN <<>> ELSE task.description[1],
   status |-> task.status, priority |-> task.priority,
   dueDate |-> DateInputValue(task.dueDate), errors |-> None]

\* the effect that fills the form when the dialog opens in edit mode:
\* the title without its first piece (split, shift, join)
EditForm(task) ==
  [open |-> TRUE, taskToEdit |-> Some(task),
   title |-> Join(Tail(Split(task.title))),
   description |-> IF task.description = None THEN <<>> ELSE task.description[1],
   status |-> task.status, priority |-> task.priority,
   dueDate |-> DateInputValue(task.dueDate), errors |-> None]

\* the partialFields handleSubmit passes to updateTask in edit mode
EditPartial(dlg) ==
  [title |-> Template(Split(dlg.taskToEdit[1].title)[1], dlg.title),
   description |-> DescriptionValue(dlg.description),
   status |-> dlg.status,
   priority |-> dlg.priority,
   dueDate |-> DateInputDate(dlg.dueDate)]

\* fault injection: only the empty string is rejected
TitleMissingWhenEmpty(title) == title = <<>>

\* !title.trim()
TitleMissing(title) == Trim(title) = <<>>

\* handleSubmit: the store call it makes ("none" when validation fails), the state
\* the store is left in and the dialog afterwards
handleSubmitFn(state, dlg, newId, code, t) ==
  IF TitleMissing(dlg.title)
  THEN [called |-> "none", state |-> state,
        dialog |-> [dlg EXCEPT !.errors = Some("Title is required")]]
  ELSE IF dlg.taskToEdit # None
  THEN [called |-> "updateTask",
        state |-> Set(state, updateTaskFn(state, dlg.taskToEdit[1].id, EditPartial(dlg), t)),
        dialog |-> [dlg EXCEPT !.open = FALSE]]
  ELSE [called |-> "createTask",
        state |-> Set(state, createTaskFn(state, newId, code, dlg.title,
                                          DescriptionValue(dlg.description),
                                          Some(dlg.status), Some(dlg.priority),
                                          DateInputDate(dlg.dueDate), t)),
        dialog |-> [dlg EXCEPT !.open = FALSE]]

(* ---------------- state machine ---------------- *)
State ==
  [board |-> board, filterByStatus |-> filterByStatus, filterByPriority |-> filterByPriority]

\* new Date()
NewDate == DateAt(now)

Install(state) ==
  /\ board' = state.board
  /\ filterByStatus' = state.filterByStatus
  /\ filterByPriority' = state.filterByPriority

\* the set() handed to the store by persist: merge, then write the slot
PersistedSet(partial) ==
  LET next == Set(State, partial)
  IN /\ Install(next)
     /\ storage' = SlotAfterSet(State, next)
     /\ wrote' = TRUE
     /\ view' = None
     /\ pending' = None

Init ==
  /\ board = initialBoard
  /\ filterByStatus = None
  /\ filterByPriority = None
  /\ now = 0
  /\ nextId = 1
  /\ storage = None
  /\ wrote = FALSE
  /\ view = None
  /\ pending = None
  /\ dialog = ClosedDialog

\* the wall clock read by new Date() advances between events
Tick ==
  /\ now < MaxClock
  /\ now' = now + 1
  /\ UNCHANGED <<board, filterByStatus, filterByPriority, nextId, storage, wrote, view,
                 pending, dialog>>

\* a call that throws changes nothing: it is no step
createTask ==
  /\ nextId <= MaxTasks
  /\ ~createTaskThrows(State)
  /\ \E code \in generateTaskCode, title \in TitleInputs, description \in DescriptionInputs,
        statusArg \in StatusArgs, priorityArg \in PriorityArgs, dueDate \in DueDateInputs :
       PersistedSet(createTaskFn(State, nextId, code, title, description,
                                 statusArg, priorityArg, dueDate, NewDate))
  /\ nextId' = nextId + 1
  /\ UNCHANGED <<now, dialog>>

updateTask(partials) ==
  /\ ~updateTaskThrows(State)
  /\ \E taskId \in Allocated, p \in partials :
       PersistedSet(updateTaskFn(State, taskId, p, NewDate))
  /\ UNCHANGED <<now, nextId, dialog>>

deleteTask ==
  /\ ~deleteTaskThrows(State)
  /\ \E taskId \in Allocated : PersistedSet(deleteTaskFn(State, taskId))
  /\ UNCHANGED <<now, nextId, dialog>>

moveTask ==
  /\ ~moveTaskThrows(State)
  /\ \E taskId \in Allocated, destinationStatus \in TaskStatus :
       PersistedSet(moveTaskFn(State, taskId, destinationStatus, NewDate))
  /\ UNCHANGED <<now, nextId, dialog>>

setFilterStatus(statuses) ==
  /\ ~setFilterThrows(State)
  /\ \E status \in statuses : PersistedSet(setFilterStatusFn(status))
  /\ UNCHANGED <<now, nextId, dialog>>

setFilterPriority(priorities) ==
  /\ ~setFilterThrows(State)
  /\ \E priority \in priorities : PersistedSet(setFilterPriorityFn(priority))
  /\ UNCHANGED <<now, nextId, dialog>>

clearFilters ==
  /\ ~setFilterThrows(State)
  /\ PersistedSet(clearFiltersFn)
  /\ UNCHANGED <<now, nextId, dialog>>

getFilteredBoardCall ==
  /\ ~getFilteredBoardThrows(State)
  /\ LET call == getFilteredBoardFn(State)
     IN Install(call.state) /\ view' = Some(call.returned)
  /\ wrote' = FALSE
  /\ UNCHANGED <<now, nextId, storage, pending, dialog>>

\* the page is loaded again: the store is created anew and hydrated from the slot
Restart ==
  /\ Install(Rehydrate(storage))
  /\ wrote' = FALSE
  /\ view' = None
  /\ dialog' = ClosedDialog
  /\ UNCHANGED <<now, nextId, storage, pending>>

\* the store driven through its whole interface, arbitrary Partial<Task> included
Next ==
  \/ Tick
  \/ createTask
  \/ updateTask(Partials)
  \/ deleteTask
  \/ moveTask
  \/ setFilterStatus({None, Some("todo")})
  \/ setFilterPriority({None, Some("high")})
  \/ clearFilters

Spec == Init /\ [][Next]_vars

\* the same store with every filter value, every priority and a frozen clock
NextFilter ==
  \/ createTask
  \/ updateTask(FilterPartials)
  \/ deleteTask
  \/ moveTask
  \/ setFilterStatus({None} \cup {Some(s) : s \in TaskStatus})
  \/ setFilterPriority({None} \cup {Some(p) : p \in TaskPriority})
  \/ clearFilters
  \/ getFilteredBoardCall

SpecFilter == Init /\ [][NextFilter]_vars

\* the store across page loads, starting from whatever the slot held
PersistPartials ==
  {[status |-> "done"], [priority |-> "high"], [dueDate |-> Some(DateAt(0))]}

InitPersist ==
  /\ storage \in InitialSlots
  /\ board = Rehydrate(storage).board
  /\ filterByStatus = Rehydrate(storage).filterByStatus
  /\ filterByPriority = Rehydrate(storage).filterByPriority
  /\ now = 0
  /\ nextId = 1
  /\ wrote = FALSE
  /\ view = None
  /\ pending = None
  /\ dialog = ClosedDialog

NextPersist ==
  \/ createTask
  \/ updateTask(PersistPartials)
  \/ deleteTask
  \/ moveTask
  \/ setFilterStatus({None, Some("todo")})
  \/ setFilterPriority({None, Some("high")})
  \/ clearFilters
  \/ Restart

SpecPersist == InitPersist /\ [][NextPersist]_vars

(* ---------------- the view's reset action ---------------- *)
\* !board?.columns || !Array.isArray(board.columns): a missing, null or otherwise
\* falsy column list is not an array either, so the second test decides
hasBoardDataIssue(state) == ~IsArray(state.board.columns)

\* fault injection: the slot is left as it is
RemoveItemKeeps(slot) == slot

\* localStorage.removeItem("kanban-storage")
RemoveItem(slot) == None

\* the Reset Board Data button, rendered only when hasBoardDataIssue:
\* the slot is removed, then window.location.reload() creates and hydrates the store anew
resetBoardData ==
  /\ hasBoardDataIssue(State)
  /\ LET slot == RemoveItem(storage)
     IN /\ storage' = slot
        /\ Install(Rehydrate(slot))
  /\ wrote' = FALSE
  /\ view' = None
  /\ dialog' = ClosedDialog
  /\ UNCHANGED <<now, nextId, pending>>

\* the page loads on a slot whose board has no column list
InitReset ==
  /\ storage = Some([board |-> CorruptBoard])
  /\ board = Rehydrate(storage).board
  /\ filterByStatus = Rehydrate(storage).filterByStatus
  /\ filterByPriority = Rehydrate(storage).filterByPriority
  /\ now = 0
  /\ nextId = 1
  /\ wrote = FALSE
  /\ view = None
  /\ pending = None
  /\ dialog = ClosedDialog

NextReset ==
  \/ createTask
  \/ updateTask(PersistPartials)
  \/ deleteTask
  \/ moveTask
  \/ setFilterStatus({None, Some("todo")})
  \/ setFilterPriority({None, Some("high")})
  \/ clearFilters
  \/ Restart
  \/ resetBoardData

SpecReset == InitReset /\ [][NextReset]_vars

(* ---------------- the view's drag-and-drop reordering ---------------- *)
\* arrayMove of @dnd-kit/sortable: the entry at `from` is taken out and put in at `to`
ArrayMove(array, from, to) ==
  LET item == array[from]
      rest == [k \in 1..(Len(array) - 1) |-> IF k < from THEN array[k] ELSE array[k + 1]]
  IN [k \in 1..Len(array) |->
        IF k < to THEN rest[k] ELSE IF k = to THEN item ELSE rest[k - 1]]

\* the clock values the n calls of the forEach loop can read, one after the other
ClockReadings(from, n) ==
  {times \in [1..n -> from..MaxClock] : \A k \in 1..(n - 1) : times[k] <= times[k + 1]}

\* newTasks.forEach((task, index) => updateTask(task.id, { updatedAt: new Date(Date.now() + index) })),
\* from the entry at position k on; the JavaScript index is k - 1
RECURSIVE DragUpdates(_, _, _, _)
DragUpdates(state, newTasks, times, k) ==
  IF k > Len(newTasks) THEN state
  ELSE DragUpdates(Set(state, updateTaskFn(state, newTasks[k].id,
                                           [updatedAt |-> Some(DateAt(times[k] + k - 1))],
                                           DateAt(times[k]))),
                   newTasks, times, k + 1)

\* the column handleDragEnd works on: the first one with the dragged task's status
DragColumn(b, activeId) == FindColumnIndex(b.columns, FoundTask(b, activeId).status)

\* const newTasks = arrayMove(column.tasks, oldIndex, newIndex)
DragNewTasks(b, activeId, overId) ==
  LET tasks == b.columns[DragColumn(b, activeId)].tasks
  IN ArrayMove(tasks, FindTaskIndex(tasks, activeId), FindTaskIndex(tasks, overId))

\* a task dropped on another task: both are tasks of one status, shown in one column
DragOnTask(b, activeId, overId) ==
  /\ activeId # overId
  /\ SourceColumnIndex(b, activeId) # 0
  /\ SourceColumnIndex(b, overId) # 0
  /\ FoundTask(b, activeId).status = FoundTask(b, overId).status
  /\ DragColumn(b, activeId) # 0
  /\ FindTaskIndex(b.columns[DragColumn(b, activeId)].tasks, activeId) # 0
  /\ FindTaskIndex(b.columns[DragColumn(b, activeId)].tasks, overId) # 0

\* the state handleDragEnd leaves for a task dropped on a task
handleDragEndFn(state, activeId, overId, times) ==
  DragUpdates(state, DragNewTasks(state.board, activeId, overId), times, 1)

handleDragEnd ==
  /\ ~updateTaskThrows(State)
  /\ \E activeId \in Allocated, overId \in Allocated :
       /\ DragOnTask(board, activeId, overId)
       /\ \E times \in ClockReadings(now, Len(DragNewTasks(board, activeId, overId))) :
            LET final == handleDragEndFn(State, activeId, overId, times)
            IN /\ Install(final)
               /\ storage' = SetItem(final)
               /\ now' = times[Len(times)]
  /\ wrote' = TRUE
  /\ view' = None
  /\ UNCHANGED <<nextId, pending, dialog>>

(* ---------------- the dialog's actions ---------------- *)
\* the Add Task button and the "+" button of a column
openCreateDialog ==
  /\ ~dialog.open
  /\ \E columnStatus \in DialogStatuses : dialog' = CreateForm(columnStatus)
  /\ UNCHANGED <<board, filterByStatus, filterByPriority, now, nextId, storage, wrote,
                 view, pending>>

\* the Edit item of a task card: handleEditTask(task)
openEditDialog ==
  /\ ~dialog.open
  /\ IsArray(board.columns)
  /\ \E i \in 1..Len(board.columns) : \E k \in 1..Len(board.columns[i].tasks) :
       dialog' = EditForm(board.columns[i].tasks[k])
  /\ UNCHANGED <<board, filterByStatus, filterByPriority, now, nextId, storage, wrote,
                 view, pending>>

\* typing into the title field; a title that is not blank clears the title error
setTitle ==
  /\ dialog.open
  /\ \E value \in DialogTitles :
       dialog' = [dialog EXCEPT !.title = value,
                                !.errors = IF Trim(value) # <<>> THEN None ELSE @]
  /\ UNCHANGED <<board, filterByStatus, filterByPriority, now, nextId, storage, wrote,
                 view, pending>>

\* the status select
setStatus ==
  /\ dialog.open
  /\ \E value \in DialogStatuses : dialog' = [dialog EXCEPT !.status = value]
  /\ UNCHANGED <<board, filterByStatus, filterByPriority, now, nextId, storage, wrote,
                 view, pending>>

\* the Cancel button: onOpenChange(false)
closeDialog ==
  /\ dialog.open
  /\ dialog' = [dialog EXCEPT !.open = FALSE]
  /\ UNCHANGED <<board, filterByStatus, filterByPriority, now, nextId, storage, wrote,
                 view, pending>>

\* the form is submitted
handleSubmit ==
  /\ dialog.open
  /\ \E code \in generateTaskCode :
       LET submitted == handleSubmitFn(State, dialog, nextId, code, NewDate)
       IN /\ dialog' = submitted.dialog
          /\ \/ /\ submitted.called = "none"
                /\ UNCHANGED <<board, filterByStatus, filterByPriority, nextId, storage,
                               wrote, view, pending>>
             \/ /\ submitted.called = "updateTask"
                /\ ~updateTaskThrows(State)
                /\ PersistedSet(updateTaskFn(State, dialog.taskToEdit[1].id,
                                             EditPartial(dialog), NewDate))
                /\ UNCHANGED nextId
             \/ /\ submitted.called = "createTask"
                /\ ~createTaskThrows(State)
                /\ nextId <= MaxTasks
                /\ PersistedSet(createTaskFn(State, nextId, code, dialog.title,
                                             DescriptionValue(dialog.description),
                                             Some(dialog.status), Some(dialog.priority),
                                             DateInputDate(dialog.dueDate), NewDate))
                /\ nextId' = nextId + 1
  /\ UNCHANGED now

\* the board used through the dialog, with a frozen clock; the dialog is modal, the
\* board behind it is out of reach while it is open
NextDialog ==
  \/ openCreateDialog
  \/ openEditDialog
  \/ setTitle
  \/ setStatus
  \/ closeDialog
  \/ handleSubmit
  \/ (~dialog.open /\ deleteTask)

SpecDialog == Init /\ [][NextDialog]_vars

\* the store driven by what the board view can do with the pointer
NextView ==
  \/ Tick
  \/ createTask
  \/ deleteTask
  \/ moveTask
  \/ handleDragEnd

SpecView == Init /\ [][NextView]_vars

(* ---------------- moveTask, statement by statement ---------------- *)
\* fault injection: the updater edits the column list of the state itself
VisibleInPlace(state, updatedColumns) ==
  [state EXCEPT !.board = WithColumns(state.board, updatedColumns)]

\* what the store holds while the updater runs: the updater works on
\* updatedColumns, a copy ([...state.board.columns]) whose changed entries are new
\* objects, so the state is as it was
VisibleWhileUpdating(state, updatedColumns) == state

\* no updater is running
Idle == pending = None

\* Step 1: the scan; `return state` when the task is not found
moveTaskFind ==
  /\ Idle
  /\ ~moveTaskThrows(State)
  /\ \E taskId \in Allocated, destinationStatus \in TaskStatus :
       IF SourceColumnIndex(board, taskId) = 0
       THEN PersistedSet(State)
       ELSE /\ pending' = Some([taskId |-> taskId,
                                destinationStatus |-> destinationStatus,
                                taskToMove |-> FoundTask(board, taskId),
                                sourceColumnIndex |-> SourceColumnIndex(board, taskId),
                                updatedColumns |-> board.columns,
                                step |-> "found"])
            /\ UNCHANGED <<board, filterByStatus, filterByPriority, storage, wrote, view>>
  /\ UNCHANGED <<now, nextId, dialog>>

\* Step 2: the task is removed from the source column of updatedColumns
moveTaskRemove ==
  /\ pending # None
  /\ pending[1].step = "found"
  /\ LET removed == [pending[1].updatedColumns EXCEPT
                       ![pending[1].sourceColumnIndex].tasks =
                          RemoveTask(@, pending[1].taskId)]
     IN /\ pending' = Some([pending[1] EXCEPT !.updatedColumns = removed,
                                               !.step = "removed"])
        /\ Install(VisibleWhileUpdating(State, removed))
  /\ UNCHANGED <<now, nextId, storage, wrote, view, dialog>>

\* Step 3: the task, restamped, is appended to the destination column, if there is one
moveTaskAppend ==
  /\ pending # None
  /\ pending[1].step = "removed"
  /\ LET dst == FindColumnIndex(pending[1].updatedColumns, pending[1].destinationStatus)
         updatedTask == MovedTask(pending[1].taskToMove, pending[1].destinationStatus,
                                  NewDate)
         appended == IF dst # 0
                     THEN [pending[1].updatedColumns EXCEPT
                             ![dst].tasks = Append(@, updatedTask)]
                     ELSE pending[1].updatedColumns
     IN /\ pending' = Some([pending[1] EXCEPT !.updatedColumns = appended,
                                               !.step = "appended"])
        /\ Install(VisibleWhileUpdating(State, appended))
  /\ UNCHANGED <<now, nextId, storage, wrote, view, dialog>>

\* the updater returns { board: { ...state.board, columns: updatedColumns } } to set()
moveTaskReturn ==
  /\ pending # None
  /\ pending[1].step = "appended"
  /\ PersistedSet([board |-> WithColumns(board, pending[1].updatedColumns)])
  /\ UNCHANGED <<now, nextId, dialog>>

\* the store with moveTask taken one statement at a time; every other operation runs
\* to completion and starts only when no updater is running
NextSteps ==
  \/ (Idle /\ Tick)
  \/ (Idle /\ createTask)
  \/ (Idle /\ updateTask(PersistPartials))
  \/ (Idle /\ deleteTask)
  \/ moveTaskFind
  \/ moveTaskRemove
  \/ moveTaskAppend
  \/ moveTaskReturn

SpecSteps == Init /\ [][NextSteps]_vars

(* ---------------- vocabulary of the properties ---------------- *)
ColumnIndexes(b) == 1..Len(b.columns)
IdsInColumn(b, i) == {b.columns[i].tasks[k].id : k \in 1..Len(b.columns[i].tasks)}
ColumnsHolding(b, taskId) == {i \in ColumnIndexes(b) : taskId \in IdsInColumn(b, i)}
OnBoard(b, taskId) == ColumnsHolding(b, taskId) # {}
Membership(b) == [i \in ColumnIndexes(b) |-> IdsInColumn(b, i)]
TaskLists(b) == [i \in ColumnIndexes(b) |-> b.columns[i].tasks]
HasColumn(b, status) == FindColumnIndex(b.columns, status) # 0
TasksInColumn(b, i) == {b.columns[i].tasks[k] : k \in 1..Len(b.columns[i].tasks)}
AllTasks(b) == UNION {TasksInColumn(b, i) : i \in ColumnIndexes(b)}
\* every entry of the board that carries the id
TasksWithId(b, taskId) == {task \in AllTasks(b) : task.id = taskId}

(* ---------------- C1 ---------------- *)
\* C1: after every sequence of store operations every task id on the board is in
\* exactly one column, and that column's status equals the task's status.
C1_ColumnExclusivity ==
  \A taskId \in Allocated :
    OnBoard(board, taskId) =>
      /\ Cardinality(ColumnsHolding(board, taskId)) = 1
      /\ \A i \in ColumnIndexes(board) :
           \A k \in 1..Len(board.columns[i].tasks) :
             board.columns[i].tasks[k].id = taskId =>
               board.columns[i].tasks[k].status = board.columns[i].status

(* ---------------- C2 ---------------- *)
MovedBy(taskId, status) == MoveTaskBoard(board, taskId, status, NewDate)
UpdatedBy(taskId, status) == UpdateTaskBoard(board, taskId, [status |-> status], NewDate)

\* C2: for every task on the board and every status S, moveTask(id, S) and
\* updateTask(id, {status: S}) give the same set of task ids in each column, and in
\* both results the task has status S and updatedAt refreshed to the current time.
C2_MoveUpdateSameMembership ==
  \A taskId \in Ids, status \in TaskStatus :
    OnBoard(board, taskId) =>
      /\ Membership(MovedBy(taskId, status)) = Membership(UpdatedBy(taskId, status))
      /\ \A result \in {MovedBy(taskId, status), UpdatedBy(taskId, status)} :
           \A task \in TasksWithId(result, taskId) :
             task.status = status /\ task.updatedAt = Some(NewDate)

(* ---------------- C3 ---------------- *)
MoveState(taskId, status) == Set(State, moveTaskFn(State, taskId, status, NewDate))
UpdateState(taskId, status) ==
  Set(State, updateTaskFn(State, taskId, [status |-> status], NewDate))

\* C3 as stated: for every taskId and every status S, moveTask(taskId, S) and
\* updateTask(taskId, {status: S}) at the same clock value give the identical state,
\* the order of the tasks inside every column included.
C3_MoveUpdateIdentical ==
  \A taskId \in Ids, status \in TaskStatus :
    MoveState(taskId, status) = UpdateState(taskId, status)

\* C3 as amended: the two calls give the identical state whenever the taskId is on no
\* column or S differs from the status of the task the scan locates.
C3_IdenticalWhenStatusChanges ==
  \A taskId \in Ids, status \in TaskStatus :
    (~OnBoard(board, taskId) \/ FoundTask(board, taskId).status # status) =>
      MoveState(taskId, status) = UpdateState(taskId, status)

\* a task is on the board, stale (updatedAt older than the clock) and movable to a
\* different column, where the two calls agree on a board that differs from this one
C3_Witness ==
  \E taskId \in Allocated :
    /\ OnBoard(board, taskId)
    /\ FoundTask(board, taskId).status = "todo"
    /\ FoundTask(board, taskId).updatedAt = Some(DateAt(0))
    /\ now = 1
    /\ MoveState(taskId, "done") = UpdateState(taskId, "done")
    /\ MoveState(taskId, "done") # State
    /\ Len(board.columns[3].tasks) = 1

(* ---------------- C4 ---------------- *)
DeleteState(state, taskId) == Set(state, deleteTaskFn(state, taskId))

\* C4: deleteTask twice gives the same board as deleteTask once, and deleteTask of an
\* id that is on no column leaves every column's task list unchanged.
C4_DeleteIdempotent ==
  \A taskId \in Ids :
    /\ DeleteState(DeleteState(State, taskId), taskId) = DeleteState(State, taskId)
    /\ ~OnBoard(board, taskId) =>
         TaskLists(DeleteState(State, taskId).board) = TaskLists(board)

\* one id has left the board, the other is still on it and deleting it changes the board
C4_Witness ==
  \E gone \in Allocated, kept \in Allocated :
    /\ ~OnBoard(board, gone)
    /\ OnBoard(board, kept)
    /\ DeleteState(State, kept) # State
    /\ ~OnBoard(DeleteState(State, kept).board, kept)

(* ---------------- C5 ---------------- *)
\* C5: updateTask and moveTask with a taskId that is on no column leave the whole
\* store state (board and filters) unchanged, whatever fields or status are passed.
C5_NotFoundIsNoOp ==
  \A taskId \in Ids :
    ~OnBoard(board, taskId) =>
      /\ \A p \in Partials : Set(State, updateTaskFn(State, taskId, p, NewDate)) = State
      /\ \A status \in TaskStatus :
           Set(State, moveTaskFn(State, taskId, status, NewDate)) = State

\* an id that was handed out is on no column, next to a task that is, with a filter set
C5_Witness ==
  \E gone \in Allocated, kept \in Allocated :
    /\ ~OnBoard(board, gone)
    /\ OnBoard(board, kept)
    /\ filterByStatus # None
    /\ Set(State, moveTaskFn(State, gone, "done", NewDate)) = State

(* ---------------- C6 ---------------- *)
RECURSIVE SumLen(_, _)
SumLen(lists, n) == IF n = 0 THEN 0 ELSE Len(lists[n]) + SumLen(lists, n - 1)
\* number of task entries on the board
TaskCount(b) == SumLen(TaskLists(b), Len(b.columns))

CreateState(code, title, description, statusArg, priorityArg, dueDate) ==
  Set(State, createTaskFn(State, nextId, code, title, description,
                          statusArg, priorityArg, dueDate, NewDate))

\* C6: createTask with a status that has a column appends exactly one task, with a
\* fresh id, the given status (TODO when omitted), the given priority (MEDIUM when
\* omitted), createdAt = now and updatedAt unset, to the column of that status, and
\* leaves the other columns, the tasks already there and the filters unchanged.
C6_CreateAddsOneTask ==
  \A code \in generateTaskCode, title \in TitleInputs, description \in DescriptionInputs,
     statusArg \in StatusArgs, priorityArg \in PriorityArgs \cup {Some("low")},
     dueDate \in DueDateInputs :
    LET status == Default(statusArg, "todo")
        c == FindColumnIndex(board.columns, status)
        after == CreateState(code, title, description, statusArg, priorityArg, dueDate)
        old == board.columns[c].tasks
        new == after.board.columns[c].tasks
    IN c # 0 =>
         /\ ~OnBoard(board, nextId)
         /\ TaskCount(after.board) = TaskCount(board) + 1
         /\ Len(new) = Len(old) + 1
         /\ SubSeq(new, 1, Len(old)) = old
         /\ new[Len(new)].id = nextId
         /\ new[Len(new)].status = status
         /\ board.columns[c].status = status
         /\ new[Len(new)].priority = Default(priorityArg, "medium")
         /\ new[Len(new)].createdAt = NewDate
         /\ new[Len(new)].updatedAt = None
         /\ \A i \in ColumnIndexes(board) :
              /\ i # c => after.board.columns[i] = board.columns[i]
              /\ after.board.columns[i].status = board.columns[i].status
         /\ after.filterByStatus = filterByStatus
         /\ after.filterByPriority = filterByPriority

\* the Done column holds an older task followed by one created just now with priority high
C6_Witness ==
  LET done == board.columns[3].tasks
  IN /\ Len(done) = 2
     /\ done[1].id = 1 /\ done[1].createdAt = DateAt(0)
     /\ done[2].id = 2 /\ done[2].status = "done" /\ done[2].priority = "high"
     /\ done[2].createdAt = DateAt(1) /\ now = 1 /\ done[2].updatedAt = None

(* ---------------- C7 ---------------- *)
\* C7: createTask with a status that has no column inserts the task nowhere: every
\* column's task list, and the whole store state, is as before the call.
C7_CreateWithoutColumnDrops ==
  \A code \in generateTaskCode, title \in TitleInputs, description \in DescriptionInputs,
     statusArg \in StatusArgs, priorityArg \in PriorityArgs, dueDate \in DueDateInputs :
    LET after == CreateState(code, title, description, statusArg, priorityArg, dueDate)
    IN ~HasColumn(board, Default(statusArg, "todo")) =>
         /\ TaskLists(after.board) = TaskLists(board)
         /\ after = State

\* BACKLOG has no column while the board already holds a task: creating there is a no-op
C7_Witness ==
  /\ ~HasColumn(board, "backlog")
  /\ TaskCount(board) = 1
  /\ nextId <= MaxTasks
  /\ \A code \in generateTaskCode, title \in TitleInputs :
       CreateState(code, title, None, Some("backlog"), None, None) = State
  /\ CreateState("TASK-100", <<"a">>, None, Some("todo"), None, None) # State

(* ---------------- C8 ---------------- *)
\* C8: updateTask on a task of the board, with fields that omit status or give the
\* task's current status, replaces the task in place: same column, same position,
\* old fields overridden by the given ones, updatedAt = now, nothing else changed.
C8_UpdateInPlace ==
  \A taskId \in Ids, p \in Partials :
    (OnBoard(board, taskId) /\ ~StatusChanges(p, FoundTask(board, taskId))) =>
      LET c == SourceColumnIndex(board, taskId)
          k == FindTaskIndex(board.columns[c].tasks, taskId)
          after == Set(State, updateTaskFn(State, taskId, p, NewDate))
      IN /\ after.board =
              [board EXCEPT !.columns[c].tasks[k] =
                 [Merge(@, p) EXCEPT !.updatedAt = Some(NewDate)]]
         /\ after.filterByStatus = filterByStatus
         /\ after.filterByPriority = filterByPriority

(* ---------------- C9 ---------------- *)
\* C9: moveTask(id, S) and updateTask(id, {status: S}) on a task of the board, when
\* no column has status S and S differs from the task's status, remove the task from
\* its source column and insert it nowhere: the id is then on no column and all the
\* other tasks are unchanged.
C9_MissingDestinationDrops ==
  \A taskId \in Ids, status \in TaskStatus :
    (/\ OnBoard(board, taskId)
     /\ ~HasColumn(board, status)
     /\ FoundTask(board, taskId).status # status) =>
      \A after \in {MovedBy(taskId, status), UpdatedBy(taskId, status)} :
        /\ ~OnBoard(after, taskId)
        /\ after = [board EXCEPT
                      !.columns[SourceColumnIndex(board, taskId)].tasks =
                         RemoveTask(@, taskId)]

(* ---------------- C10 ---------------- *)
WithStatus(tasks, status) == SelectSeq(tasks, LAMBDA task : task.status = status)
\* number of task entries of the board whose status is the given one
StatusCount(b, status) ==
  SumLen([i \in ColumnIndexes(b) |-> WithStatus(b.columns[i].tasks, status)],
         Len(b.columns))

\* C10: with statusFilter = P and no priority filter, every task getFilteredBoard()
\* shows has status P, and it shows as many tasks as the board has with status P.
C10_StatusFilterCorrect ==
  (filterByStatus # None /\ filterByPriority = None) =>
    /\ \A task \in AllTasks(getFilteredBoard) : task.status = filterByStatus[1]
    /\ TaskCount(getFilteredBoard) = StatusCount(board, filterByStatus[1])

\* the status filter is Done, no priority filter, and it hides one of two tasks
C10_Witness ==
  /\ filterByStatus = Some("done")
  /\ filterByPriority = None
  /\ TaskCount(board) = 2
  /\ TaskCount(getFilteredBoard) = 1
  /\ Len(getFilteredBoard.columns[3].tasks) = 1

(* ---------------- C11 ---------------- *)
\* a task passes when it agrees with each filter that is set
Passes(task) ==
  /\ (filterByStatus # None => task.status = filterByStatus[1])
  /\ (filterByPriority # None => task.priority = filterByPriority[1])

RECURSIVE Passing(_, _)
\* the tasks among the first n of the list that pass, in the order of the list
Passing(tasks, n) ==
  IF n = 0 THEN <<>>
  ELSE IF Passes(tasks[n]) THEN Append(Passing(tasks, n - 1), tasks[n])
       ELSE Passing(tasks, n - 1)

\* C11: getFilteredBoard() returns the board's id and title and the same columns in
\* the same order with the same id, title and status, and each column's tasks are
\* exactly the stored tasks that pass the status filter and the priority filter (an
\* unset filter passes every task), in their stored relative order.
C11_FilteredBoardShape ==
  LET shown == getFilteredBoard
  IN /\ shown.id = board.id
     /\ shown.title = board.title
     /\ Len(shown.columns) = Len(board.columns)
     /\ \A i \in ColumnIndexes(board) :
          /\ shown.columns[i].id = board.columns[i].id
          /\ shown.columns[i].title = board.columns[i].title
          /\ shown.columns[i].status = board.columns[i].status
          /\ shown.columns[i].tasks =
               Passing(board.columns[i].tasks, Len(board.columns[i].tasks))

\* both filters are set; To Do stores a task that fails the priority filter before
\* one that passes, and only the second is shown
C11_Witness ==
  /\ filterByStatus = Some("todo")
  /\ filterByPriority = Some("high")
  /\ Len(board.columns[1].tasks) = 2
  /\ board.columns[1].tasks[1].priority = "medium"
  /\ board.columns[1].tasks[2].priority = "high"
  /\ getFilteredBoard.columns[1].tasks = <<board.columns[1].tasks[2]>>

AllStatusFilters == {None} \cup {Some(s) : s \in TaskStatus}
AllPriorityFilters == {None} \cup {Some(p) : p \in TaskPriority}
\* the snapshot { board } of the in-memory board, as the slot holds it
Snapshot(b) == Some([board |-> StringifyBoard(b)])

\* C13 as stated: setFilterStatus, setFilterPriority and clearFilters never change the
\* board and never write the storage slot, and each changes only the filter field(s)
\* it names.
C13_SettersNeverWrite ==
  [][/\ (setFilterStatus(AllStatusFilters) \/ setFilterPriority(AllPriorityFilters)
          \/ clearFilters) =>
          (board' = board /\ wrote' = FALSE /\ storage' = storage)
     /\ setFilterStatus(AllStatusFilters) => filterByPriority' = filterByPriority
     /\ setFilterPriority(AllPriorityFilters) => filterByStatus' = filterByStatus
     /\ clearFilters => (filterByStatus' = None /\ filterByPriority' = None)]_vars

\* C13 as amended: the three setters never change the board and each changes only
\* the filter field(s) it names; each of them does write the slot, and what it writes
\* is the snapshot { board } of the unchanged board.
C13_SettersKeepBoard ==
  [][/\ (setFilterStatus(AllStatusFilters) \/ setFilterPriority(AllPriorityFilters)
          \/ clearFilters) =>
          (board' = board /\ wrote' = TRUE /\ storage' = Snapshot(board))
     /\ setFilterStatus(AllStatusFilters) => filterByPriority' = filterByPriority
     /\ setFilterPriority(AllPriorityFilters) => filterByStatus' = filterByStatus
     /\ clearFilters => (filterByStatus' = None /\ filterByPriority' = None)]_vars

\* both filters have been set on a board of two tasks, and the slot holds the
\* snapshot of that board
C13_Witness ==
  /\ filterByStatus = Some("in_progress")
  /\ filterByPriority = Some("low")
  /\ TaskCount(board) = 2
  /\ wrote = TRUE
  /\ storage = Snapshot(board)

(* ---------------- C14 ---------------- *)
\* C14: after every createTask, updateTask, deleteTask or moveTask that completes,
\* the slot holds the snapshot { board } of the board now in memory, whatever it held
\* before.
C14_MutationsPersist ==
  [][(createTask \/ updateTask(PersistPartials) \/ deleteTask \/ moveTask) =>
       (wrote' = TRUE /\ storage' = Snapshot(board'))]_vars

\* the slot holds the snapshot of a board with a task created in this page load: the
\* createdAt in memory is a Date, the stored one its timestamp string
C14_Witness ==
  /\ IsArray(board.columns)
  /\ TaskCount(board) = 1
  /\ \E task \in AllTasks(board) : task.createdAt = DateAt(0) /\ task.status = "done"
  /\ wrote = TRUE
  /\ storage = Snapshot(board)
  /\ storage # Some([board |-> board])

(* ---------------- C15 ---------------- *)
\* C15: the stored snapshot never contains the status filter or the priority filter,
\* and a restart from the slot leaves both filters unset whatever they are now.
C15_FiltersNotPersisted ==
  /\ storage # None =>
       /\ "filterByStatus" \notin DOMAIN storage[1]
       /\ "filterByPriority" \notin DOMAIN storage[1]
  /\ Rehydrate(storage).filterByStatus = None
  /\ Rehydrate(storage).filterByPriority = None

\* both filters are set after a restart (the task's createdAt came back from the
\* slot), the slot was written since, and a restart now would unset them
C15_Witness ==
  /\ filterByStatus = Some("todo")
  /\ filterByPriority = Some("high")
  /\ wrote = TRUE
  /\ storage = Snapshot(board)
  /\ IsArray(board.columns)
  /\ \E task \in AllTasks(board) : task.createdAt = ToISOString(DateAt(0))
  /\ Rehydrate(storage) # State

(* ---------------- C16 ---------------- *)
\* the slot is absent, or its state has no board field, or the board's columns are
\* not an array
SlotUnusable(slot) ==
  \/ slot = None
  \/ "board" \notin DOMAIN slot[1]
  \/ ~IsArray(slot[1].board.columns)

\* C16: when the store starts from a slot that is absent, or whose value has no board
\* field, or whose board.columns is not a sequence, the stored value is discarded and
\* the board in memory is the default board.
C16_UnusableSlotGivesDefault ==
  SlotUnusable(storage) => Rehydrate(storage).board = initialBoard

(* ---------------- C17 ---------------- *)
\* value instanceof Date
IsDate(v) == "time" \in DOMAIN v
\* the board a page load restores from what the store writes for the state
RoundTrip(state) == Rehydrate(SetItem(state)).board

\* C17: serializing the board to the slot and deserializing it gives an equal board
\* (same columns, same tasks, same field values) whose createdAt, updatedAt and
\* dueDate are date values again, not timestamp strings.
C17_RoundTripRevivesDates ==
  IsArray(board.columns) =>
    /\ RoundTrip(State) = board
    /\ \A task \in AllTasks(RoundTrip(State)) :
         /\ IsDate(task.createdAt)
         /\ task.updatedAt # None => IsDate(task.updatedAt[1])
         /\ task.dueDate # None => IsDate(task.dueDate[1])

(* ---------------- C18 ---------------- *)
\* per column and position: the id, title, description, status and priority stored there
Content(b) ==
  [i \in ColumnIndexes(b) |->
     [k \in 1..Len(b.columns[i].tasks) |->
        LET task == b.columns[i].tasks[k]
        IN [id |-> task.id, title |-> task.title, description |-> task.description,
            status |-> task.status, priority |-> task.priority]]]

\* C18: when the page is loaded again after the store has been mutated, the board
\* holds the same task ids in the same columns in the same stored order, each with
\* the same title, description, status and priority.
C18_RestartKeepsTasks ==
  [][(Restart /\ wrote = TRUE /\ IsArray(board.columns)) =>
       (IsArray(board'.columns) /\ Content(board') = Content(board))]_vars

\* the page has just been loaded again with two tasks in two columns, one of them
\* moved before the load: their dates came back from the slot
C18_Witness ==
  /\ wrote = FALSE
  /\ IsArray(board.columns)
  /\ Len(board.columns[1].tasks) = 1
  /\ Len(board.columns[3].tasks) = 1
  /\ board.columns[1].tasks[1].id = 2
  /\ board.columns[1].tasks[1].createdAt = ToISOString(DateAt(0))
  /\ board.columns[3].tasks[1].id = 1
  /\ board.columns[3].tasks[1].priority = "high"
  /\ board.columns[3].tasks[1].updatedAt = Some(ToISOString(DateAt(0)))

(* ---------------- C19 ---------------- *)
\* C19: from the default board, createTask(title) puts exactly one task on the board,
\* in To Do, with status TODO, priority MEDIUM and updatedAt unset; moveTask(thatId,
\* DONE), at that or a later clock value, then leaves To Do empty and Done with
\* exactly that id, status DONE and updatedAt set (and not before createdAt); and
\* deleteTask(thatId) then leaves every column empty.
C19_Scenario ==
  (board = initialBoard /\ nextId <= MaxTasks) =>
    \A code \in generateTaskCode, title \in TitleInputs, later \in now..MaxClock :
      LET created == CreateState(code, title, None, None, None, None)
          moved == Set(created, moveTaskFn(created, nextId, "done", DateAt(later)))
          deleted == DeleteState(moved, nextId)
          todo == created.board.columns[1].tasks
          done == moved.board.columns[3].tasks
      IN /\ TaskCount(created.board) = 1
         /\ Len(todo) = 1
         /\ todo[1].id = nextId
         /\ todo[1].status = "todo" /\ created.board.columns[1].status = "todo"
         /\ todo[1].priority = "medium"
         /\ todo[1].updatedAt = None
         /\ TaskCount(moved.board) = 1
         /\ moved.board.columns[1].tasks = <<>>
         /\ Len(done) = 1
         /\ done[1].id = nextId
         /\ done[1].status = "done" /\ moved.board.columns[3].status = "done"
         /\ done[1].updatedAt # None
         /\ GetTime(done[1].updatedAt[1]) >= GetTime(done[1].createdAt)
         /\ \A i \in ColumnIndexes(deleted.board) : deleted.board.columns[i].tasks = <<>>

\* the scenario after its second step: the one task, created at 0 with the defaults,
\* was moved to Done at 1, and deleting it gives the default board back
C19_Witness ==
  /\ nextId = 2
  /\ now = 1
  /\ board.columns[1].tasks = <<>>
  /\ board.columns[2].tasks = <<>>
  /\ Len(board.columns[3].tasks) = 1
  /\ board.columns[3].tasks[1] =
       [NewTask(1, "TASK-100", <<"a">>, None, "todo", "medium", None, DateAt(0))
          EXCEPT !.status = "done", !.updatedAt = Some(DateAt(1))]
  /\ DeleteState(State, 1).board = initialBoard

(* ---------------- C20 ---------------- *)
\* C20: with a clock that never goes back, every task on the board whose updatedAt is
\* set has updatedAt >= createdAt, and updatedAt is set on the task a moveTask has
\* just touched (it is unset only on tasks no updateTask or moveTask has touched).
C20_UpdatedNotBeforeCreated ==
  /\ \A task \in AllTasks(board) :
       task.updatedAt # None => GetTime(task.updatedAt[1]) >= GetTime(task.createdAt)
  /\ \A taskId \in Ids, status \in TaskStatus :
       (OnBoard(board, taskId) /\ HasColumn(board, status)) =>
         LET moved == MovedBy(taskId, status).columns[FindColumnIndex(board.columns, status)].tasks
         IN moved[Len(moved)].updatedAt # None

(* ---------------- C21 ---------------- *)
\* the state clearFilters() leaves
ClearedState == Set(State, clearFiltersFn)
\* what getFilteredBoard() returns in a state
Shown(state) == FilteredBoard(state.board, state.filterByStatus, state.filterByPriority)

\* C21: after clearFilters(), whatever filters were set before, getFilteredBoard()
\* shows in every column exactly the tasks the stored board has in that column.
C21_ClearShowsAll ==
  /\ ClearedState.board = board
  /\ \A i \in ColumnIndexes(board) :
       Shown(ClearedState).columns[i].tasks = board.columns[i].tasks

\* To Do stores a LOW and a HIGH task; under the HIGH priority filter only one is
\* shown, and after clearFilters() both are
C21_Witness ==
  /\ filterByPriority = Some("high")
  /\ Len(board.columns[1].tasks) = 2
  /\ board.columns[1].tasks[1].priority = "low"
  /\ board.columns[1].tasks[2].priority = "high"
  /\ Len(getFilteredBoard.columns[1].tasks) = 1
  /\ Len(Shown(ClearedState).columns[1].tasks) = 2

(* ---------------- C22 ---------------- *)
\* the (id, createdAt) pairs of the tasks on the board
Identities(b) == {<<task.id, task.createdAt>> : task \in AllTasks(b)}

\* C22: a task's id and createdAt are immutable: whatever the store operation,
\* updateTask with arbitrary fields included, every task on the board afterwards has
\* the id and createdAt of a task that was on the board before, or is the task a
\* createTask has just made (fresh id, createdAt = the clock).
C22_IdAndCreatedAtImmutable ==
  [][Identities(board') \subseteq Identities(board) \cup {<<nextId, NewDate>>}]_vars

(* ---------------- C23 ---------------- *)
\* the (id, title, status) triples of the columns, in order
ColumnLabels(b) ==
  [i \in ColumnIndexes(b) |-> <<b.columns[i].id, b.columns[i].title, b.columns[i].status>>]

\* C23: in every state reachable from the default board the board id, the board
\* title and the sequence of column (id, title, status) triples are those of the
\* initial board: no operation adds, removes, reorders or relabels a column.
C23_ColumnsFixed ==
  /\ board.id = initialBoard.id
  /\ board.title = initialBoard.title
  /\ ColumnLabels(board) = ColumnLabels(initialBoard)

\* two tasks were created, one has left the board and the other reached Done through
\* a move or an update at clock 1: the columns are the initial three
C23_Witness ==
  /\ nextId = 3
  /\ TaskCount(board) = 1
  /\ Len(board.columns[3].tasks) = 1
  /\ board.columns[3].tasks[1].updatedAt = Some(DateAt(1))
  /\ Len(board.columns) = 3
  /\ ColumnLabels(board) = ColumnLabels(initialBoard)

Replaces(after, new) ==
  /\ new.inPlace = {}
  /\ after # board =>
       /\ new.board
       /\ new.columns
       /\ \A i \in ColumnIndexes(board) :
            after.columns[i].tasks # board.columns[i].tasks => i \in new.tasks

Occurrences(tasks, task) == Cardinality({k \in 1..Len(tasks) : tasks[k] = task})

\* C26: what a column displays is a permutation of its stored tasks in descending
\* order of (updatedAt if set, else createdAt), whatever the stored order, and
\* rendering leaves the stored task list as it was.
C26_DisplayedNewestFirst ==
  \A i \in ColumnIndexes(board) :
    LET stored == board.columns[i].tasks
        shown == RenderColumn(board.columns[i]).sortedTasks
    IN /\ Len(shown) = Len(stored)
       /\ \A k \in 1..Len(stored) :
            Occurrences(shown, stored[k]) = Occurrences(stored, stored[k])
       /\ \A j, k \in 1..Len(shown) :
            j < k => GetTime(DateOf(shown[j])) >= GetTime(DateOf(shown[k]))
       /\ RenderColumn(board.columns[i]).column = board.columns[i]

\* To Do stores the older task first; it is displayed last
C26_Witness ==
  /\ Len(board.columns[1].tasks) = 2
  /\ GetTime(DateOf(board.columns[1].tasks[1])) = 0
  /\ GetTime(DateOf(board.columns[1].tasks[2])) = 1
  /\ RenderColumn(board.columns[1]).sortedTasks =
       <<board.columns[1].tasks[2], board.columns[1].tasks[1]>>

(* ---------------- C27 ---------------- *)
\* C27: in every state the store can be in, the state after startup from any content
\* of the slot included, none of createTask, updateTask, deleteTask, moveTask, the
\* filter setters and getFilteredBoard throws.
C27_NoOperationThrows ==
  /\ ~createTaskThrows(State)
  /\ ~updateTaskThrows(State)
  /\ ~deleteTaskThrows(State)
  /\ ~moveTaskThrows(State)
  /\ ~setFilterThrows(State)
  /\ ~getFilteredBoardThrows(State)

UpdateReinserted(b, taskId, p, t) ==
  LET src == SourceColumnIndex(b, taskId)
      after == UpdateTaskBoard(b, taskId, p, t)
  IN IF StatusChanges(p, FoundTask(b, taskId))
     THEN LET dst == FindColumnIndex(b.columns, p.status)
          IN IF dst = 0 THEN None
             ELSE Some(after.columns[dst].tasks[Len(after.columns[dst].tasks)])
     ELSE Some(after.columns[src].tasks[FindTaskIndex(b.columns[src].tasks, taskId)])

\* the entry a move of a found task appends to the destination column
MoveReinserted(b, taskId, destinationStatus, t) ==
  LET dst == FindColumnIndex(b.columns, destinationStatus)
      after == MoveTaskBoard(b, taskId, destinationStatus, t)
  IN IF dst = 0 THEN None
     ELSE Some(after.columns[dst].tasks[Len(after.columns[dst].tasks)])

\* C29: whatever updateTask or moveTask re-inserts for a task it found carries the
\* clock value of the call as updatedAt, for every partialFields, one that carries an
\* updatedAt of its own included.
C29_StampIsTheClock ==
  \A taskId \in Allocated :
    SourceColumnIndex(board, taskId) # 0 =>
      /\ \A p \in Partials :
           LET r == UpdateReinserted(board, taskId, p, NewDate)
           IN r # None => r[1].updatedAt = Some(NewDate)
      /\ \A destinationStatus \in TaskStatus :
           LET r == MoveReinserted(board, taskId, destinationStatus, NewDate)
           IN r # None => r[1].updatedAt = Some(NewDate)

\* a task is on the board and the clock has moved on, so that a partialFields with
\* updatedAt 0 differs from the clock value 1 the update stores
C29_Witness ==
  /\ now = MaxClock
  /\ \E taskId \in Allocated :
       /\ SourceColumnIndex(board, taskId) # 0
       /\ [updatedAt |-> Some(DateAt(0))] \in Partials
       /\ UpdateReinserted(board, taskId, [updatedAt |-> Some(DateAt(0))], NewDate)
            = Some([FoundTask(board, taskId) EXCEPT !.updatedAt = Some(DateAt(MaxClock))])
       /\ \E task \in AllTasks(board) : task.updatedAt = Some(DateAt(MaxClock))

(* ---------------- C30 ---------------- *)
\* the ids of a task list, in order
IdsOf(tasks) == [k \in 1..Len(tasks) |-> tasks[k].id]

\* C30: when a task is dropped on another task of its column, the order the column
\* displays afterwards is the order in which the dragged task has taken the target
\* task's position.
C30_DragShowsNewOrder ==
  \A activeId \in Allocated, overId \in Allocated :
    DragOnTask(board, activeId, overId) =>
      \A times \in ClockReadings(now, Len(DragNewTasks(board, activeId, overId))) :
        LET final == handleDragEndFn(State, activeId, overId, times)
            column == final.board.columns[DragColumn(board, activeId)]
        IN IdsOf(RenderColumn(column).sortedTasks)
             = IdsOf(DragNewTasks(board, activeId, overId))

(* ---------------- C31 ---------------- *)
\* a string that is empty or holds whitespace only
Blank(string) == \A k \in 1..Len(string) : string[k] \in Whitespace

\* what the user typed of a stored title: the title after its code and the space
UserTitle(title) == SubSeq(title, 3, Len(title))

\* C31: a submit of the dialog with a title that is empty or only whitespace calls
\* neither createTask nor updateTask, leaves the board, the slot and the id supply
\* as they are, sets the title error and keeps the dialog open; and no task on the
\* board used through the dialog has a blank user title.
C31_BlankTitleRejected ==
  [][ /\ (handleSubmit /\ Blank(dialog.title)) =>
           /\ \A code \in generateTaskCode :
                handleSubmitFn(State, dialog, nextId, code, NewDate).called = "none"
           /\ board' = board
           /\ storage' = storage
           /\ nextId' = nextId
           /\ dialog'.errors = Some("Title is required")
           /\ dialog'.open
           /\ dialog'.title = dialog.title
      /\ \A task \in AllTasks(board') :
           /\ task.title[1] \in generateTaskCode
           /\ task.title[2] = " "
           /\ ~Blank(UserTitle(task.title)) ]_vars

\* a whitespace-only title was submitted: the dialog is open and shows the title error
C31_Witness ==
  /\ dialog.open
  /\ dialog.title = <<" ", "\t">>
  /\ dialog.errors = Some("Title is required")

(* ---------------- C32 ---------------- *)
\* the stored title of the task `task` after the dialog, opened on it with `title` in
\* the title field, is submitted; None when the submit makes no updateTask call or
\* the task is gone
TitleAfterEdit(task, title) ==
  LET submitted == handleSubmitFn(State, [EditForm(task) EXCEPT !.title = title],
                                  nextId, "TASK-100", NewDate)
      edited == TasksWithId(submitted.state.board, task.id)
  IN IF submitted.called = "updateTask" /\ edited # {}
     THEN Some((CHOOSE e \in edited : TRUE).title)
     ELSE None

\* C32: an edit through the dialog keeps the code: the first space-separated piece of
\* every stored title is a generated code, an accepted edit leaves the first piece as
\* it was, and a submit of the edit dialog with the title field as it was filled
\* leaves the stored title as it was.
C32_EditKeepsCode ==
  \A task \in AllTasks(board) :
    /\ \E code \in generateTaskCode : Split(task.title)[1] = <<code>>
    /\ \A title \in DialogTitles :
         LET after == TitleAfterEdit(task, title)
         IN after # None => Split(after[1])[1] = Split(task.title)[1]
    /\ TitleAfterEdit(task, EditForm(task).title) = Some(task.title)

\* a task whose title has two spaces in a row has been edited through the dialog
C32_Witness ==
  /\ ~dialog.open
  /\ \E task \in AllTasks(board) :
       /\ task.updatedAt # None
       /\ task.title = Template(<<"TASK-100">>, <<"a", " ", " ", "b">>)
       /\ EditForm(task).title = <<"a", " ", " ", "b">>

(* ---------------- C33 ---------------- *)
\* the status createTask files the new task under: TaskStatus.TODO when omitted
CreateStatus(statusArg) == Default(statusArg, "todo")

\* the change of the task count the claim states for updateTask(taskId, p)
UpdateDelta(b, taskId, p) ==
  IF /\ OnBoard(b, taskId)
     /\ "status" \in DOMAIN p
     /\ p.status # FoundTask(b, taskId).status
     /\ ~HasColumn(b, p.status)
  THEN 0 - 1 ELSE 0

\* C33: the number of task entries on the board changes by +1 on createTask to a
\* status with a column, by -1 on deleteTask of a present id and on moveTask or
\* updateTask of a present task to a status without a column, and by 0 on every
\* other call.
C33_TaskCountAccounting ==
  /\ \A statusArg \in StatusArgs :
       TaskCount(CreateState("TASK-100", <<"a">>, None, statusArg, None, None).board)
         = TaskCount(board) + (IF HasColumn(board, CreateStatus(statusArg)) THEN 1 ELSE 0)
  /\ \A taskId \in Ids :
       /\ TaskCount(DeleteTaskBoard(board, taskId))
            = TaskCount(board) - (IF OnBoard(board, taskId) THEN 1 ELSE 0)
       /\ \A destinationStatus \in TaskStatus :
            TaskCount(MoveState(taskId, destinationStatus).board)
              = TaskCount(board)
                - (IF OnBoard(board, taskId) /\ ~HasColumn(board, destinationStatus)
                   THEN 1 ELSE 0)
       /\ \A p \in Partials :
            TaskCount(Set(State, updateTaskFn(State, taskId, p, NewDate)).board)
              = TaskCount(board) + UpdateDelta(board, taskId, p)
  /\ \A status \in AllStatusFilters, priority \in AllPriorityFilters :
       /\ Set(State, setFilterStatusFn(status)).board = board
       /\ Set(State, setFilterPriorityFn(priority)).board = board
       /\ Set(State, clearFiltersFn).board = board

(* ---------------- C34 ---------------- *)
\* the boards a call leaves in which the id, on the board b, is on no column:
\* deleteTask, and moveTask or updateTask to a status without a column
BoardsWithout(b, taskId) ==
  {after \in {DeleteTaskBoard(b, taskId)}
             \cup {MoveTaskBoard(b, taskId, status, NewDate) : status \in TaskStatus}
             \cup {UpdateTaskBoard(b, taskId, [status |-> status], NewDate) :
                     status \in TaskStatus} :
     ~OnBoard(after, taskId)}

\* the boards one more call of createTask, updateTask, moveTask or deleteTask leaves
BoardsAfterCall(b) ==
  {CreateTaskBoard(b, nextId, "TASK-100", <<"a">>, None, statusArg, None, None, NewDate) :
     statusArg \in StatusArgs}
  \cup {UpdateTaskBoard(b, taskId, p, NewDate) : taskId \in Allocated, p \in Partials}
  \cup {MoveTaskBoard(b, taskId, status, NewDate) : taskId \in Allocated, status \in TaskStatus}
  \cup {DeleteTaskBoard(b, taskId) : taskId \in Allocated}

\* C34: an id that has left the board, by deleteTask or by a move or update to a
\* status without a column, is on no column after the call that follows, whichever
\* updateTask, moveTask, deleteTask or createTask that is.
C34_RemovedIdStaysOff ==
  \A taskId \in Allocated :
    OnBoard(board, taskId) =>
      \A without \in BoardsWithout(board, taskId) :
        \A later \in BoardsAfterCall(without) : ~OnBoard(later, taskId)

(* ---------------- C35 ---------------- *)
\* the list with its entry at position k taken out and `last` put at the end
Reappended(tasks, k, last) ==
  [j \in 1..Len(tasks) |->
     IF j < k THEN tasks[j] ELSE IF j < Len(tasks) THEN tasks[j + 1] ELSE last]

\* C35: moveTask(id, S) with S the current status of the task removes the task and
\* re-appends it in its column: the column holds the same tasks as before, the other
\* tasks in their old relative order, the moved task last with updatedAt refreshed and
\* nothing else changed, and every other column is as it was.
C35_MoveToOwnStatusReappends ==
  \A taskId \in Allocated :
    OnBoard(board, taskId) =>
      LET src == SourceColumnIndex(board, taskId)
          task == FoundTask(board, taskId)
          k == FindTaskIndex(board.columns[src].tasks, taskId)
          after == MoveTaskBoard(board, taskId, task.status, NewDate)
      IN /\ after.columns[src].tasks
              = Reappended(board.columns[src].tasks, k,
                           [task EXCEPT !.updatedAt = Some(NewDate)])
         /\ \A i \in ColumnIndexes(board) :
              i # src => after.columns[i] = board.columns[i]

(* ---------------- C36 ---------------- *)
\* C36: in every state reached from the default board, no column's task list holds
\* two entries with the same id, updateTask with arbitrary partialFields included.
C36_IdsUnique ==
  \A i \in ColumnIndexes(board) :
    \A k \in 1..Len(board.columns[i].tasks), l \in 1..Len(board.columns[i].tasks) :
      k # l => board.columns[i].tasks[k].id # board.columns[i].tasks[l].id

====
